---- MODULE Spec2Model ----
(***************************************************************************)
(* Deal ingest, scoring, buyer matching and the notification queue of the  *)
(* VortexAI backend (src/main.py), as a state machine.                     *)
(*                                                                         *)
(* Every request handler is a coroutine: it can be suspended at each       *)
(* `await`, so each database transaction and each transport call is one    *)
(* step, and the steps of two requests in flight interleave.               *)
(*                                                                         *)
(* Scores are kept in thousandths (0.65 is 650), factor values of the      *)
(* matching engine in tenths and its weights in hundredths.                *)
(***************************************************************************)
EXTENDS Integers, Sequences, FiniteSets, TLC

VARIABLES
    smtp,           \* the SMTP settings that are set (main.py:28-32), fixed at start-up
    client_openai,  \* whether the scoring client exists (main.py:52), fixed at start-up
    deals,          \* table deals: sequence of rows, deal_id = position
    matches,        \* table matches: <<deal_id, buyer_id>> -> row
    notifications,  \* table notifications: sequence of rows, notification_id = position
    audit_events,   \* table audit_events
    req,            \* the requests in flight: slot -> the handler's locals and position
    started,        \* number of requests received so far
    outbox,         \* what the transport was handed: sequence of notification ids
    nfaults,        \* number of faults injected so far (store, transport)
    latest,         \* deal_id -> the values its most recent upsert supplied
    overlap,        \* whether a request is received while another is in flight
    retry,          \* the row whose send raised in the last failed dispatch, until
                    \* the next dispatch call selects its batch (0: none)
    buyers,         \* table buyers (written by /webhooks/buyer, only read here)
    probe,          \* one application of a pure function: its inputs and result
    rejected        \* the recipients the SMTP server refuses, on every attempt

vars == <<smtp, client_openai, deals, matches, notifications, audit_events,
          req, started, outbox, nfaults, latest, overlap, retry, buyers, probe,
          rejected>>

None == "None"       \* an absent string
Nil == <<>>           \* an absent number
Some(x) == <<x>>      \* a number that is present
Val(o) == o[1]

\* ------------------------------------------------------------------ bounds
MaxCalls == 2       \* requests received in all
MaxFaults == 1      \* store and transport faults in all
Calls == {1, 2}

\* --------------------------------------------------------------- constants
NotifyThreshold == 650
IngestLimit == 50
AdminDefaultLimit == 25
AuditCap == 50

Min(a, b) == IF a < b THEN a ELSE b
Max(a, b) == IF a > b THEN a ELSE b
\* score_deal_ai without its clamps.
Unclamped(x) == x

Clamp01(x) == Max(0, Min(1000, x))

\* ------------------------------------------------------------------ inputs
Keywords == {"urgent", "must sell", "motivated", "discount", "below market",
             "wholesale", "liquidation"}

\* The listing part of a payload.  `title` stands for the lower-cased blob
\* "title description": the set of words and phrases it contains.
Hot  == [title |-> {"urgent", "discount", "wholesale", "liquidation", "lot"},
         price |-> Some(150), country |-> "US", region |-> "CA", posted_at |-> Some(10)]
Cold == [title |-> {"lot"},
         price |-> Nil, country |-> None, region |-> None, posted_at |-> Nil]

Listing(cat, src, url, uid, l) ==
    [category |-> cat, source |-> src, source_url |-> url, source_uid |-> uid,
     title |-> l.title, price |-> l.price, country |-> l.country,
     region |-> l.region, posted_at |-> l.posted_at]

Payloads ==
    { Listing("wholesale", None,  "a", "u1", Hot),
      Listing("car",       None,  "b", "u1", Cold),
      Listing("wholesale", "rss", "a", None, Hot),
      Listing("bogus",     None,  "a", "u1", Hot) }

\* What the external scoring service does on one call.
\* "raise": the call raises; "unparsable": the text is no JSON object, or its
\* score is no number; "object": a JSON object, whose keys may be missing.
Missing == "Missing"
ExtResponses ==
    { [kind |-> "raise", score |-> Nil, reason |-> Missing],
      [kind |-> "unparsable", score |-> Nil, reason |-> Missing],
      [kind |-> "object", score |-> Some(1200), reason |-> "r"],
      [kind |-> "object", score |-> Nil, reason |-> Missing] }

\* The hash seeds of the server processes (str hashes are salted per process).
HashSeeds == {0, 1}

\* The rows of table buyers.
Buyers ==
    << [buyer_id |-> 1, status |-> "active", countries |-> {"US"}, regions |-> {"NY"},
        categories |-> {"wholesale"}, budget_min |-> Some(100), budget_max |-> Some(200)],
       [buyer_id |-> 2, status |-> "active", countries |-> {}, regions |-> {},
        categories |-> {"car"}, budget_min |-> Nil, budget_max |-> Nil],
       [buyer_id |-> 3, status |-> "inactive", countries |-> {"US"}, regions |-> {"CA"},
        categories |-> {"wholesale", "car"}, budget_min |-> Some(100), budget_max |-> Some(200)] >>

AdminLimits == {0, 1, AdminDefaultLimit}

\* settings.admin_email; a recipient is named by a number, a buyer's by its
\* buyer_id.
AdminEmail == 0

SmtpSettings == {"smtp_host", "smtp_user", "smtp_pass", "smtp_from"}
SmtpConfigs == { {"smtp_host", "smtp_user", "smtp_pass"}, SmtpSettings }

\* ------------------------------------------------------- scoring (150-220)
Truthy(o) == o /= Nil /\ Val(o) /= 0      \* Python truth of an optional number

heuristic(deal) ==
    LET hits    == {kw \in Keywords : kw \in deal.title}
        priced  == Truthy(deal.price) /\ Val(deal.price) > 0
        age     == deal.posted_at
        fresh   == IF age = Nil THEN {}
                   ELSE IF Val(age) <= 24 THEN {"fresh_<=24h"}
                   ELSE IF Val(age) <= 72 THEN {"fresh_<=72h"} ELSE {}
        bonus   == IF "fresh_<=24h" \in fresh THEN 100
                   ELSE IF "fresh_<=72h" \in fresh THEN 60 ELSE 0
        score   == 300 + 80 * Cardinality(hits) + (IF priced THEN 100 ELSE 0) + bonus
        reasons == {"keyword:" \o kw : kw \in hits}
                       \cup (IF priced THEN {"price_present"} ELSE {}) \cup fresh
    IN  [score |-> Clamp01(score),
         reason |-> IF reasons /= {} THEN reasons ELSE {"heuristic"}]

\* ext is the external service's behaviour on this call; it is consulted only
\* when the client exists.
score_deal_ai(deal, has_client, ext) ==
    IF ~has_client THEN heuristic(deal)
    ELSE IF ext.kind /= "object" THEN heuristic(deal)
    ELSE [score  |-> Clamp01(IF ext.score = Nil THEN 0 ELSE Val(ext.score)),
          reason |-> {IF ext.reason = Missing THEN "ai" ELSE ext.reason}]

\* ------------------------------------------------------ matching (226-293)
\* Weights that give the budget half of the score.
BudgetHeavyWeights == [budget |-> 50, location |-> 30, category |-> 20, recency |-> 10]

weights == [budget |-> 40, location |-> 30, category |-> 20, recency |-> 10]

compute_match(deal_row, buyer_row) ==
    LET cat_score == IF deal_row.category \in buyer_row.categories THEN 10 ELSE 0
        loc == (IF deal_row.country /= None /\ deal_row.country \in buyer_row.countries
                THEN 6 ELSE 0)
             + (IF deal_row.region /= None /\ deal_row.region \in buyer_row.regions
                THEN 4 ELSE 0)
        location_score == Min(10, loc)
        price == deal_row.price
        bmin  == buyer_row.budget_min
        bmax  == buyer_row.budget_max
        budget_score ==
            IF Truthy(price) /\ bmin /= Nil /\ bmax /= Nil
                 /\ Val(bmin) <= Val(price) /\ Val(price) <= Val(bmax) THEN 10
            ELSE IF Truthy(price) /\ bmax /= Nil /\ Val(price) <= Val(bmax) THEN 6
            ELSE 3
        age == deal_row.posted_at
        recency_score == IF age = Nil THEN 5
                         ELSE IF Val(age) <= 24 THEN 10
                         ELSE IF Val(age) <= 72 THEN 8
                         ELSE IF Val(age) <= 168 THEN 6 ELSE 4
        final == weights.budget * budget_score + weights.location * location_score
                 + weights.category * cat_score + weights.recency * recency_score
    IN  [score |-> Clamp01(final),
         breakdown |-> [budget |-> budget_score, location |-> location_score,
                        category |-> cat_score, recency |-> recency_score,
                        weights |-> weights]]


\* ------------------------------------------------------------ the tables
CategoryEnum == {"real_estate", "car", "wholesale", "luxury", "equipment"}

\* The handler without its category check.
AnyCategory(category) == TRUE

\* if payload.category not in {...}: raise HTTPException(400, ...) (433-434)
ValidCategory(category) == category \in CategoryEnum

\* str(abs(hash(source_url))) in a process whose hash seed is `seed`.
DerivedUid(seed, source_url) ==
    "h" \o (IF seed = 0 THEN "0" ELSE "1") \o source_url

SourceOf(payload) == IF payload.source = None THEN "unknown" ELSE payload.source

DealIndex(ds, source, uid) ==
    {i \in DOMAIN ds : ds[i].source = source /\ ds[i].source_uid = uid}

\* The insert without its on-conflict clause (and without the unique key).
InsertDeal(ds, p, score, reason) ==
    Append(ds, [deal_id |-> Len(ds) + 1, category |-> p.category,
                source |-> SourceOf(p), source_url |-> p.source_url,
                source_uid |-> p.source_uid, title |-> p.title, price |-> p.price,
                country |-> p.country, region |-> p.region,
                posted_at |-> p.posted_at, ai_score |-> score, ai_reason |-> reason])

\* insert into deals ... on conflict (source, source_uid) do update set ...
\* (the columns currency, city, postal_code, description, images and raw are written
\* exactly as title is, and are not carried separately)
UpsertDeal(ds, p, score, reason) ==
    LET hit == DealIndex(ds, SourceOf(p), p.source_uid) IN
    IF hit = {}
    THEN Append(ds, [deal_id |-> Len(ds) + 1, category |-> p.category,
                     source |-> SourceOf(p), source_url |-> p.source_url,
                     source_uid |-> p.source_uid, title |-> p.title, price |-> p.price,
                     country |-> p.country, region |-> p.region,
                     posted_at |-> p.posted_at, ai_score |-> score, ai_reason |-> reason])
    ELSE [i \in DOMAIN ds |->
            IF i \in hit
            THEN [ds[i] EXCEPT !.title = p.title, !.price = p.price,
                               !.country = p.country, !.region = p.region,
                               !.posted_at = p.posted_at,
                               !.ai_score = score, !.ai_reason = reason]
            ELSE ds[i]]

\* select * from deals where source = :source and source_uid = :uid  (first row)
\* (Nil when there is none)
FetchDeal(ds, p) ==
    LET hit == DealIndex(ds, SourceOf(p), p.source_uid) IN
    IF hit = {} THEN Nil ELSE Some(ds[CHOOSE i \in hit : \A j \in hit : i <= j])

\* select ... from buyers where status = 'active'
ActiveBuyers == SelectSeq(buyers, LAMBDA b : b.status = "active")

\* insert into matches ... on conflict (deal_id, buyer_id) do update set ...
UpsertMatch(ms, deal_id, buyer_id, score, breakdown) ==
    [k \in DOMAIN ms \cup {<<deal_id, buyer_id>>} |->
        IF k = <<deal_id, buyer_id>>
        THEN [match_score |-> score, match_breakdown |-> breakdown]
        ELSE ms[k]]

\* now() of the store, as a logical clock: the rows of the table so far
Now(ns) == Len(ns) + 1

\* An enqueue that reuses the row of the same kind, deal and buyer, queued anew.
enqueue_requeue(ns, kind, to_email, deal_id, buyer_id) ==
    LET old == {i \in DOMAIN ns : /\ ns[i].kind = kind
                                  /\ ns[i].related_deal_id = deal_id
                                  /\ ns[i].related_buyer_id = buyer_id}
    IN  IF old = {}
        THEN Append(ns, [notification_id |-> Len(ns) + 1, kind |-> kind,
                         to_email |-> to_email, status |-> "queued",
                         related_deal_id |-> deal_id, related_buyer_id |-> buyer_id,
                         created_at |-> Now(ns), sent_at |-> None, provider |-> None])
        ELSE [i \in DOMAIN ns |->
                IF i \in old THEN [ns[i] EXCEPT !.status = "queued", !.sent_at = None,
                                                !.provider = None]
                ELSE ns[i]]

\* enqueue_notification: one more row, queued (subject and body are text built
\* from the payload and are not carried)
enqueue_notification(ns, kind, to_email, deal_id, buyer_id) ==
    Append(ns, [notification_id |-> Len(ns) + 1, kind |-> kind, to_email |-> to_email,
                status |-> "queued", related_deal_id |-> deal_id,
                related_buyer_id |-> buyer_id, created_at |-> Now(ns),
                sent_at |-> None, provider |-> None])

RECURSIVE OrderByCreatedAt(_, _)
OrderByCreatedAt(ns, ids) ==
    IF ids = {} THEN <<>>
    ELSE LET m == CHOOSE i \in ids :
                     \A j \in ids : ns[i].created_at < ns[j].created_at
                                    \/ (ns[i].created_at = ns[j].created_at /\ i <= j)
         IN  <<m>> \o OrderByCreatedAt(ns, ids \ {m})

RECURSIVE Reverse(_)
Reverse(q) == IF q = <<>> THEN <<>> ELSE Reverse(Tail(q)) \o <<Head(q)>>

\* The select with order by created_at desc.
SelectNewest(ns, limit) ==
    LET q == Reverse(OrderByCreatedAt(ns, {i \in DOMAIN ns : ns[i].status = "queued"}))
    IN  SubSeq(q, 1, Min(limit, Len(q)))

\* The select without its status filter.
SelectAnyStatus(ns, limit) ==
    LET q == OrderByCreatedAt(ns, DOMAIN ns)
    IN  SubSeq(q, 1, Min(limit, Len(q)))

\* select notification_id ... where status = 'queued' order by created_at asc limit :limit
SelectQueued(ns, limit) ==
    LET q == OrderByCreatedAt(ns, {i \in DOMAIN ns : ns[i].status = "queued"})
    IN  SubSeq(q, 1, Min(limit, Len(q)))

\* The update without its where clause.
MarkSentAll(ns, id, at) ==
    [i \in DOMAIN ns |->
        [ns[i] EXCEPT !.status = "sent", !.sent_at = at, !.provider = "smtp"]]

\* update notifications set status='sent', sent_at=now(), provider='smtp' where notification_id = :id
MarkSent(ns, id, at) ==
    [i \in DOMAIN ns |->
        IF ns[i].notification_id = id
        THEN [ns[i] EXCEPT !.status = "sent", !.sent_at = at, !.provider = "smtp"]
        ELSE ns[i]]

\* The check of the host alone.
SmtpHostOnly(set) == "smtp_host" \in set

\* settings.smtp_host and settings.smtp_user and settings.smtp_pass and settings.smtp_from
SmtpConfigured(set) == SmtpSettings \subseteq set

SentIds(ns) == {i \in DOMAIN ns : ns[i].status = "sent"}


\* ------------------------------------------------------------ the requests
\* A handler's locals.  pc is where the coroutine stands; ext is what the scoring
\* service did on its call; log lists what the handler has done so far and faults
\* what went wrong under it; seen is the set of rows already marked sent when its
\* dispatch began, and retrying the row whose send had raised in the dispatch
\* call before it (0: none).
NoExt == [kind |-> "raise", score |-> Nil, reason |-> "Missing"]
IdleReq ==
    [op |-> "none", pc |-> "idle", payload |-> Nil, ext |-> NoExt, score |-> 0,
     reason |-> {}, deal_row |-> Nil, b |-> 0, matched |-> <<>>, limit |-> 0,
     rows |-> <<>>, k |-> 0, sent |-> 0, result |-> [status |-> 0], log |-> <<>>,
     faults |-> {}, seen |-> {}, retrying |-> 0]

Ev(name, buyer_id) == [ev |-> name, buyer |-> buyer_id]

InFlight(c) == req[c].pc \notin {"idle", "done"}

\* A request is accepted into the lowest free slot (slots are interchangeable).
CanBegin(c) ==
    /\ req[c].pc = "idle"
    /\ started < MaxCalls
    /\ \A d \in Calls : d < c => InFlight(d)
    /\ overlap \/ \A d \in Calls : req[d].pc = "idle"

\* Whether the store or the transport answers a call: it may fail while the
\* fault budget lasts.
Outcomes == IF nfaults < MaxFaults THEN {TRUE, FALSE} ELSE {TRUE}
Spend(ok) == nfaults' = IF ok THEN nfaults ELSE nfaults + 1

\* No pure function is being applied.
NoProbe == [fn |-> "none"]

Tables ==
    /\ smtp \in SmtpConfigs
    /\ client_openai \in BOOLEAN
    /\ deals = <<>>
    /\ matches = <<>>
    /\ notifications = <<>>
    /\ audit_events = <<>>
    /\ req = [c \in Calls |-> IdleReq]
    /\ started = 0
    /\ outbox = <<>>
    /\ nfaults = 0
    /\ latest = <<>>
    /\ retry = 0
    /\ buyers = Buyers
    /\ probe = NoProbe
    /\ rejected = {}

\* Requests served one at a time.
Init == Tables /\ overlap = FALSE

\* Requests in flight together, their steps interleaved, on a server whose
\* transport is configured and which has no scoring client, with a store and a
\* transport that answer every call.
InitConc ==
    /\ smtp = SmtpSettings
    /\ client_openai = FALSE
    /\ deals = <<>>
    /\ matches = <<>>
    /\ notifications = <<>>
    /\ audit_events = <<>>
    /\ req = [c \in Calls |-> IdleReq]
    /\ started = 0
    /\ outbox = <<>>
    /\ nfaults = MaxFaults
    /\ latest = <<>>
    /\ retry = 0
    /\ buyers = Buyers
    /\ probe = NoProbe
    /\ rejected = {}
    /\ overlap = TRUE

\* The handler ends with an unhandled exception (or HTTPException(500)).
Raise(r, fault) ==
    [r EXCEPT !.pc = "done", !.result = [status |-> 500], !.faults = @ \cup {fault}]

\* send_queued_notifications returns n to its caller, which returns.
Return(r, n) ==
    [r EXCEPT !.pc = "done",
              !.result = IF r.op = "ingest"
                         THEN [status |-> 200, deal_id |-> r.deal_row.deal_id,
                               ai_score |-> r.score,
                               matched_notified |-> Len(r.matched),
                               emails_sent_now |-> n]
                         ELSE [status |-> 200, sent |-> n]]

\* POST /webhooks/deal-ingest, up to the first await on the store: validation,
\* the derived uid and the scoring call (431-439).
DealIngest(c) ==
    /\ CanBegin(c)
    /\ \E p \in Payloads, seed \in HashSeeds, ext \in ExtResponses :
        /\ p.source_uid = None \/ seed = 0
        /\ client_openai \/ ext = NoExt
        /\ IF ~ValidCategory(p.category)
           THEN req' = [req EXCEPT ![c] =
                    [IdleReq EXCEPT !.op = "ingest", !.pc = "done", !.payload = p,
                                    !.result = [status |-> 400]]]
           ELSE LET q == [p EXCEPT !.source_uid =
                              IF @ = None THEN DerivedUid(seed, p.source_url) ELSE @]
                    sr == score_deal_ai(q, client_openai, ext)
                IN  req' = [req EXCEPT ![c] =
                        [IdleReq EXCEPT !.op = "ingest", !.pc = "upsert", !.payload = q,
                                        !.ext = ext,
                                        !.score = sr.score, !.reason = sr.reason,
                                        !.log = <<Ev("score", 0)>>]]
    /\ started' = started + 1
    /\ UNCHANGED <<smtp, client_openai, deals, matches, notifications, audit_events,
                   outbox, nfaults, latest, overlap, buyers, probe, rejected, retry>>

\* The upsert of the deal (441-482); the store may fail it.
DealUpsert(c) ==
    /\ req[c].pc = "upsert"
    /\ LET r == req[c] IN
       \E ok \in Outcomes :
         /\ Spend(ok)
         /\ IF ok
            THEN LET nd == UpsertDeal(deals, r.payload, r.score, r.reason)
                     id == CHOOSE i \in DOMAIN nd :
                              i \in DealIndex(nd, SourceOf(r.payload), r.payload.source_uid)
                 IN  /\ deals' = nd
                     /\ latest' = [i \in DOMAIN latest \cup {id} |->
                                     IF i = id
                                     THEN [payload |-> r.payload, ai_score |-> r.score,
                                           ai_reason |-> r.reason]
                                     ELSE latest[i]]
                     /\ req' = [req EXCEPT ![c] =
                           [r EXCEPT !.pc = "fetch", !.log = Append(@, Ev("upsert", 0))]]
            ELSE /\ req' = [req EXCEPT ![c] = Raise(r, "upsert")]
                 /\ UNCHANGED <<deals, latest>>
    /\ UNCHANGED <<smtp, client_openai, matches, notifications, audit_events,
                   started, outbox, overlap, buyers, probe, rejected, retry>>

\* Fetch deal_id (484-492).
DealFetch(c) ==
    /\ req[c].pc = "fetch"
    /\ LET r == req[c]
           row == FetchDeal(deals, r.payload)
       IN  req' = [req EXCEPT ![c] =
                IF row = Nil THEN Raise(r, "fetch")
                ELSE [r EXCEPT !.pc = "admin", !.deal_row = Val(row),
                               !.log = Append(@, Ev("fetch", 0))]]
    /\ UNCHANGED <<smtp, client_openai, deals, matches, notifications, audit_events,
                   started, outbox, nfaults, latest, overlap, buyers, probe, rejected, retry>>

\* Where the sweep goes after buyer number b of the list.
AfterBuyer(r) ==
    IF r.b < Len(ActiveBuyers) THEN [r EXCEPT !.pc = "match", !.b = @ + 1]
    ELSE [r EXCEPT !.pc = "audit"]

\* The admin notification behind the threshold test of the buyer notifications.
AdminNotifyGated(c) ==
    /\ req[c].pc = "admin"
    /\ LET r == req[c] IN
       /\ notifications' = IF r.score >= NotifyThreshold
                           THEN enqueue_notification(notifications, "admin", AdminEmail,
                                                     r.deal_row.deal_id, 0)
                           ELSE notifications
       /\ req' = [req EXCEPT ![c] =
                    AfterBuyer([r EXCEPT !.b = 0, !.log = Append(@, Ev("admin", 0))])]
    /\ UNCHANGED <<smtp, client_openai, deals, matches, audit_events,
                   started, outbox, nfaults, latest, overlap, buyers, probe, rejected, retry>>

\* Admin notification, then the buyers are loaded (494-513).
AdminNotify(c) ==
    /\ req[c].pc = "admin"
    /\ LET r == req[c] IN
       /\ notifications' = enqueue_notification(notifications, "admin", AdminEmail,
                                                r.deal_row.deal_id, 0)
       /\ req' = [req EXCEPT ![c] =
                    AfterBuyer([r EXCEPT !.b = 0, !.log = Append(@, Ev("admin", 0))])]
    /\ UNCHANGED <<smtp, client_openai, deals, matches, audit_events,
                   started, outbox, nfaults, latest, overlap, buyers, probe, rejected, retry>>

\* The gate with `or` for `and`.
GateEither(score, ms) == score >= NotifyThreshold \/ ms >= NotifyThreshold

\* if score >= settings.notify_threshold and ms >= settings.notify_threshold (538)
Gate(score, ms) == score >= NotifyThreshold /\ ms >= NotifyThreshold

\* The upsert of the Match row outside any try block.
MatchFailedRaises(r, buyer_id) == Raise(r, "match")

\* except Exception: pass (535-536): the failed upsert of a Match row is
\* swallowed and the sweep goes on.
MatchFailed(r, buyer_id) ==
    [r EXCEPT !.faults = @ \cup {"match"},
              !.log = Append(@, Ev("persist_failed", buyer_id))]

\* One buyer of the sweep: compute_match and the upsert of the Match row, whose
\* failure is swallowed (514-538).
MatchBuyer(c) ==
    /\ req[c].pc = "match"
    /\ LET r  == req[c]
           bu == ActiveBuyers[r.b]
           m  == compute_match(r.deal_row, bu)
           r1 == [r EXCEPT !.log = Append(@, Ev("match", bu.buyer_id))]
       IN
       IF m.score <= 0
       THEN /\ req' = [req EXCEPT ![c] = AfterBuyer(r1)]
            /\ UNCHANGED <<matches, nfaults>>
       ELSE \E ok \in Outcomes :
            LET r2 == IF ok THEN [r1 EXCEPT !.log = Append(@, Ev("persist", bu.buyer_id))]
                      ELSE MatchFailed(r1, bu.buyer_id)
            IN
            /\ Spend(ok)
            /\ matches' = IF ok THEN UpsertMatch(matches, r.deal_row.deal_id, bu.buyer_id,
                                                 m.score, m.breakdown)
                          ELSE matches
            /\ req' = [req EXCEPT ![c] =
                         IF r2.pc = "done" THEN r2
                         ELSE IF Gate(r.score, m.score) THEN [r2 EXCEPT !.pc = "notify"]
                         ELSE AfterBuyer(r2)]
    /\ UNCHANGED <<smtp, client_openai, deals, notifications, audit_events,
                   started, outbox, latest, overlap, buyers, probe, rejected, retry>>

\* The buyer notification of a buyer that passed the gate (539-542).
NotifyBuyer(c) ==
    /\ req[c].pc = "notify"
    /\ LET r  == req[c]
           bu == ActiveBuyers[r.b]
           m  == compute_match(r.deal_row, bu)
       IN
       /\ notifications' = enqueue_notification(notifications, "buyer", bu.buyer_id,
                                                r.deal_row.deal_id, bu.buyer_id)
       /\ req' = [req EXCEPT ![c] =
                    AfterBuyer([r EXCEPT
                        !.matched = Append(@, [buyer_id |-> bu.buyer_id,
                                               email |-> bu.buyer_id,
                                               match_score |-> m.score]),
                        !.log = Append(@, Ev("buyer", bu.buyer_id))])]
    /\ UNCHANGED <<smtp, client_openai, deals, matches, audit_events,
                   started, outbox, nfaults, latest, overlap, buyers, probe, rejected, retry>>

\* The audit record (544-547); the handler then calls
\* send_queued_notifications(limit=50).
Audit(c) ==
    /\ req[c].pc = "audit"
    /\ LET r == req[c] IN
       /\ audit_events' = Append(audit_events,
              [event_type |-> "deal_ingest", entity_id |-> r.deal_row.deal_id,
               ai_score |-> r.score, ai_reason |-> r.reason,
               matched |-> SubSeq(r.matched, 1, Min(AuditCap, Len(r.matched)))])
       /\ req' = [req EXCEPT ![c] =
                    [r EXCEPT !.pc = "dispatch", !.limit = IngestLimit,
                              !.log = Append(@, Ev("audit", 0))]]
    /\ UNCHANGED <<smtp, client_openai, deals, matches, notifications,
                   started, outbox, nfaults, latest, overlap, buyers, probe, rejected, retry>>

\* POST /admin/send-queued?limit=N (555-558)
AdminSendQueued(c) ==
    /\ CanBegin(c)
    /\ \E limit \in AdminLimits :
         req' = [req EXCEPT ![c] =
                   [IdleReq EXCEPT !.op = "admin", !.pc = "dispatch", !.limit = limit]]
    /\ started' = started + 1
    /\ UNCHANGED <<smtp, client_openai, deals, matches, notifications, audit_events,
                   outbox, nfaults, latest, overlap, buyers, probe, rejected, retry>>

\* send_queued_notifications up to the batch (317-339): the configuration check
\* and the select.
SendQueued(c) ==
    /\ req[c].pc = "dispatch"
    /\ LET r    == [req[c] EXCEPT !.log = Append(@, Ev("dispatch", 0)),
                                  !.seen = SentIds(notifications),
                                  !.retrying = IF SmtpConfigured(smtp) THEN retry ELSE 0]
           rows == SelectQueued(notifications, r.limit)
       IN  req' = [req EXCEPT ![c] =
                IF ~SmtpConfigured(smtp) THEN Return(r, 0)
                ELSE IF rows = <<>> THEN Return([r EXCEPT !.log = Append(@, Ev("select", 0))], 0)
                ELSE [r EXCEPT !.pc = "smtp", !.rows = rows, !.k = 1, !.sent = 0,
                               !.log = Append(@, Ev("select", 0))]]
    /\ retry' = IF SmtpConfigured(smtp) THEN 0 ELSE retry
    /\ UNCHANGED <<smtp, client_openai, deals, matches, notifications, audit_events,
                   started, outbox, nfaults, latest, overlap, buyers, probe, rejected>>

\* smtplib.SMTP(...), starttls, login (340-342): the session opens or raises.
SmtpOpen(c) ==
    /\ req[c].pc = "smtp"
    /\ \E ok \in Outcomes :
         /\ Spend(ok)
         /\ req' = [req EXCEPT ![c] =
                      IF ok THEN [@ EXCEPT !.pc = "send", !.log = Append(@, Ev("session", 0))]
                      ELSE Raise(@, "smtp")]
    /\ UNCHANGED <<smtp, client_openai, deals, matches, notifications, audit_events,
                   started, outbox, latest, overlap, buyers, probe, rejected, retry>>

\* s.send_message(msg) for row k of the batch (343-349): sent, or it raises; it
\* raises on every attempt for a recipient the server refuses.
SendMessage(c) ==
    /\ req[c].pc = "send"
    /\ LET id == req[c].rows[req[c].k]
           refused == notifications[id].to_email \in rejected
       IN
       \E ok \in (IF refused THEN {FALSE} ELSE Outcomes) :
         /\ Spend(ok \/ refused)
         /\ IF ok
            THEN /\ outbox' = Append(outbox, id)
                 /\ req' = [req EXCEPT ![c] = [@ EXCEPT !.pc = "mark"]]
                 /\ UNCHANGED retry
            ELSE /\ retry' = id
                 /\ req' = [req EXCEPT ![c] = Raise(@, "send")]
                 /\ UNCHANGED outbox
    /\ UNCHANGED <<smtp, client_openai, deals, matches, notifications, audit_events,
                   started, latest, overlap, buyers, probe, rejected>>

\* The update that marks row k sent (350-357), and the end of the loop (358).
MarkRow(c) ==
    /\ req[c].pc = "mark"
    /\ LET r  == req[c]
           id == r.rows[r.k]
           r1 == [r EXCEPT !.sent = @ + 1]
       IN
       /\ notifications' = MarkSent(notifications, id, Len(outbox))
       /\ req' = [req EXCEPT ![c] =
                    IF r.k < Len(r.rows) THEN [r1 EXCEPT !.pc = "send", !.k = @ + 1]
                    ELSE Return(r1, r1.sent)]
    /\ UNCHANGED <<smtp, client_openai, deals, matches, audit_events,
                   started, outbox, nfaults, latest, overlap, buyers, probe, rejected, retry>>

\* The response leaves the server and the handler's frame is gone.
Respond(c) ==
    /\ req[c].pc = "done"
    /\ req' = [req EXCEPT ![c] = IdleReq]
    /\ UNCHANGED <<smtp, client_openai, deals, matches, notifications, audit_events,
                   started, outbox, nfaults, latest, overlap, buyers, probe, rejected, retry>>

Next ==
    \E c \in Calls :
        \/ DealIngest(c)
        \/ DealUpsert(c)
        \/ DealFetch(c)
        \/ AdminNotify(c)
        \/ MatchBuyer(c)
        \/ NotifyBuyer(c)
        \/ Audit(c)
        \/ AdminSendQueued(c)
        \/ SendQueued(c)
        \/ SmtpOpen(c)
        \/ SendMessage(c)
        \/ MarkRow(c)
        \/ Respond(c)

Spec == Init /\ [][Next]_vars

SpecConc == InitConc /\ [][Next]_vars

\* A buyers table with one more active buyer than the audit record's list holds,
\* each of them a match for the Hot listing.
Crowd ==
    [i \in 1..(AuditCap + 1) |->
        [buyer_id |-> i, status |-> "active", countries |-> {"US"}, regions |-> {"NY"},
         categories |-> {"wholesale"}, budget_min |-> Some(100), budget_max |-> Some(200)]]

\* Requests served one at a time against that table, on a server whose
\* transport is configured and which has no scoring client, with a store and a
\* transport that answer every call.
InitCrowd ==
    /\ smtp = SmtpSettings
    /\ client_openai = FALSE
    /\ deals = <<>>
    /\ matches = <<>>
    /\ notifications = <<>>
    /\ audit_events = <<>>
    /\ req = [c \in Calls |-> IdleReq]
    /\ started = 0
    /\ outbox = <<>>
    /\ nfaults = MaxFaults
    /\ latest = <<>>
    /\ retry = 0
    /\ buyers = Crowd
    /\ probe = NoProbe
    /\ rejected = {}
    /\ overlap = FALSE

SpecCrowd == InitCrowd /\ [][Next]_vars

\* ------------------------------------------------ dispatch invoked for ever
\* POST /admin/send-queued called again and again, by an operator or a
\* scheduler (555-558): a dispatch call with a limit of at least 1 that is not
\* counted among the requests.
Redispatch(c) ==
    /\ req[c].pc = "idle"
    /\ \A d \in Calls : d < c => InFlight(d)
    /\ overlap \/ \A d \in Calls : req[d].pc = "idle"
    /\ \E limit \in AdminLimits \ {0} :
         req' = [req EXCEPT ![c] =
                   [IdleReq EXCEPT !.op = "admin", !.pc = "dispatch", !.limit = limit]]
    /\ UNCHANGED <<smtp, client_openai, deals, matches, notifications, audit_events,
                   started, outbox, nfaults, latest, overlap, retry, buyers, probe,
                   rejected>>

\* Requests served one at a time on a server whose transport is configured,
\* with a store and an SMTP session that answer every call, and an SMTP server
\* that refuses some recipients.
InitLive ==
    /\ smtp = SmtpSettings
    /\ client_openai = FALSE
    /\ deals = <<>>
    /\ matches = <<>>
    /\ notifications = <<>>
    /\ audit_events = <<>>
    /\ req = [c \in Calls |-> IdleReq]
    /\ started = 0
    /\ outbox = <<>>
    /\ nfaults = MaxFaults
    /\ latest = <<>>
    /\ retry = 0
    /\ buyers = Buyers
    /\ probe = NoProbe
    /\ rejected \in SUBSET {AdminEmail, Buyers[1].buyer_id}
    /\ overlap = FALSE

NextLive ==
    \E c \in Calls :
        \/ DealIngest(c)
        \/ DealUpsert(c)
        \/ DealFetch(c)
        \/ AdminNotify(c)
        \/ MatchBuyer(c)
        \/ NotifyBuyer(c)
        \/ Audit(c)
        \/ Redispatch(c)
        \/ SendQueued(c)
        \/ SmtpOpen(c)
        \/ SendMessage(c)
        \/ MarkRow(c)
        \/ Respond(c)

\* A handler that has been entered runs to its end, and dispatch is called
\* whenever the server is free; no ingest call is bound to arrive.
Fairness ==
    \A c \in Calls :
        /\ WF_vars(DealUpsert(c))
        /\ WF_vars(DealFetch(c))
        /\ WF_vars(AdminNotify(c))
        /\ WF_vars(MatchBuyer(c))
        /\ WF_vars(NotifyBuyer(c))
        /\ WF_vars(Audit(c))
        /\ WF_vars(Redispatch(c))
        /\ WF_vars(SendQueued(c))
        /\ WF_vars(SmtpOpen(c))
        /\ WF_vars(SendMessage(c))
        /\ WF_vars(MarkRow(c))
        /\ WF_vars(Respond(c))

SpecLive == InitLive /\ [][NextLive]_vars /\ Fairness

\* ------------------------------------------- the pure functions on their own
\* score_deal_ai and compute_match applied to inputs drawn from bounded sets.
KeywordList == <<"urgent", "must sell", "motivated", "discount", "below market",
                 "wholesale", "liquidation">>
Titles == {{KeywordList[i] : i \in 1..n} \cup {"lot"} : n \in 0..Len(KeywordList)}
Prices == {Nil, Some(0), Some(50), Some(150), Some(250)}
Ages == {Nil, Some(10), Some(48), Some(100), Some(200)}   \* hours since posted_at

ProbeExt ==
    ExtResponses \cup
    {[kind |-> "object", score |-> Some(x), reason |-> "r"] : x \in {0 - 200, 0, 500, 1000}}

ProbeBuyers ==
    {[buyer_id |-> 1, status |-> "active", countries |-> cs, regions |-> rs,
      categories |-> cats, budget_min |-> bmin, budget_max |-> bmax] :
        cs \in {{}, {"US"}}, rs \in {{}, {"NY"}}, cats \in {{}, {"wholesale"}},
        bmin \in {Nil, Some(0), Some(100)}, bmax \in {Nil, Some(200)}}

ScoreProbes ==
    {[fn |-> "score", applied |-> FALSE,
      deal |-> Listing("wholesale", None, "a", "u1",
                       [title |-> t, price |-> p, country |-> "US", region |-> "CA",
                        posted_at |-> a]),
      buyer |-> Buyers[1], has_client |-> x[1], ext |-> x[2], out |-> Nil] :
        t \in Titles, p \in Prices, a \in Ages,
        x \in ({FALSE} \X {NoExt}) \cup ({TRUE} \X ProbeExt)}

MatchProbes ==
    {[fn |-> "match", applied |-> FALSE,
      deal |-> Listing(cat, None, "a", "u1",
                       [title |-> {"lot"}, price |-> p, country |-> co, region |-> re,
                        posted_at |-> a]),
      buyer |-> bu, has_client |-> FALSE, ext |-> NoExt, out |-> Nil] :
        cat \in {"wholesale", "car"}, p \in Prices, co \in {None, "US"},
        re \in {None, "CA", "NY"}, a \in Ages, bu \in ProbeBuyers}

InitFn ==
    /\ smtp = SmtpSettings
    /\ client_openai = FALSE
    /\ deals = <<>>
    /\ matches = <<>>
    /\ notifications = <<>>
    /\ audit_events = <<>>
    /\ req = [c \in Calls |-> IdleReq]
    /\ started = 0
    /\ outbox = <<>>
    /\ nfaults = 0
    /\ latest = <<>>
    /\ retry = 0
    /\ buyers = Buyers
    /\ overlap = FALSE
    /\ probe \in ScoreProbes \cup MatchProbes
    /\ rejected = {}

ApplyScore ==
    /\ probe.fn = "score"
    /\ ~probe.applied
    /\ probe' = [probe EXCEPT !.applied = TRUE,
                              !.out = score_deal_ai(probe.deal, probe.has_client, probe.ext)]
    /\ UNCHANGED <<smtp, client_openai, deals, matches, notifications, audit_events,
                   req, started, outbox, nfaults, latest, overlap, retry, buyers,
                   rejected>>

ApplyMatch ==
    /\ probe.fn = "match"
    /\ ~probe.applied
    /\ probe' = [probe EXCEPT !.applied = TRUE,
                              !.out = compute_match(probe.deal, probe.buyer)]
    /\ UNCHANGED <<smtp, client_openai, deals, matches, notifications, audit_events,
                   req, started, outbox, nfaults, latest, overlap, retry, buyers,
                   rejected>>

NextFn == ApplyScore \/ ApplyMatch

SpecFn == InitFn /\ [][NextFn]_vars

\* ------------------------------------------------------------ properties
Has(r, name, buyer_id) == \E i \in DOMAIN r.log : r.log[i] = Ev(name, buyer_id)

\* The sweep of an ingest call is over.
Swept(r) == r.op = "ingest" /\ (r.pc = "audit" \/ Has(r, "audit", 0))

BuyerRows(deal_id, buyer_id) ==
    {i \in DOMAIN notifications :
        /\ notifications[i].kind = "buyer"
        /\ notifications[i].related_deal_id = deal_id
        /\ notifications[i].related_buyer_id = buyer_id}

\* C1: after any sequence of successful ingest calls there is exactly one Deal row
\* per (source, source_uid), and every non-key field of the row (category and
\* source_url among them) is the value of the most recent ingest of that key.
C1_RowReflectsLatestIngest ==
    \A i \in DOMAIN deals :
        /\ \A j \in DOMAIN deals :
              (deals[j].source = deals[i].source
                  /\ deals[j].source_uid = deals[i].source_uid) => j = i
        /\ i \in DOMAIN latest
        /\ LET d == deals[i]
               p == latest[i].payload
           IN  /\ d.category = p.category
               /\ d.source_url = p.source_url
               /\ d.title = p.title
               /\ d.price = p.price
               /\ d.country = p.country
               /\ d.region = p.region
               /\ d.posted_at = p.posted_at
               /\ d.ai_score = latest[i].ai_score
               /\ d.ai_reason = latest[i].ai_reason

\* C2: in an ingest call, a buyer notification is enqueued for an active buyer
\* exactly when the deal's ai_score and that buyer's match score both reach the
\* threshold; a buyer whose match score is below it gets none, whatever ai_score.
C2_NotificationGating ==
    \A c \in Calls :
        LET r == req[c] IN
        r.op = "ingest" /\ Has(r, "fetch", 0) =>
            \A i \in DOMAIN ActiveBuyers :
                LET bu == ActiveBuyers[i]
                    ms == compute_match(r.deal_row, bu).score
                    notified == Has(r, "buyer", bu.buyer_id)
                    both == r.score >= NotifyThreshold /\ ms >= NotifyThreshold
                IN  /\ notified => both /\ BuyerRows(r.deal_row.deal_id, bu.buyer_id) /= {}
                    /\ Swept(r) /\ both => notified
                    /\ notified <=> \E j \in DOMAIN r.matched : r.matched[j].buyer_id = bu.buyer_id

\* An ingest call whose sweep is over scored 1.0, notified one buyer and left out
\* another, whose match score is below the threshold.
C2_Witness ==
    \E c \in Calls :
        /\ Swept(req[c])
        /\ req[c].score = 1000
        /\ \E i, j \in DOMAIN ActiveBuyers :
              /\ Has(req[c], "buyer", ActiveBuyers[i].buyer_id)
              /\ compute_match(req[c].deal_row, ActiveBuyers[j]).score < NotifyThreshold
              /\ ~Has(req[c], "buyer", ActiveBuyers[j].buyer_id)

\* C3: once a row is marked sent, no later dispatch call hands it to the
\* transport: nothing is handed over after its mark, and no call's batch holds a
\* row that was marked sent when the call began.
C3_SentRowNotResent ==
    /\ \A j \in DOMAIN outbox :
          notifications[outbox[j]].status = "sent" => j <= notifications[outbox[j]].sent_at
    /\ \A c \in Calls : \A i \in DOMAIN req[c].rows : req[c].rows[i] \notin req[c].seen

\* A dispatch call that began when rows were marked sent has handed a row over.
C3_Witness ==
    \E c \in Calls :
        /\ req[c].seen /= {}
        /\ req[c].pc = "mark"
        /\ Len(outbox) > Cardinality(req[c].seen)

C5_InvalidCategoryNoMutation ==
    [][\A c \in Calls :
          (/\ req[c].pc = "idle"
           /\ req'[c].op = "ingest"
           /\ req'[c].payload.category \notin CategoryEnum)
          => /\ req'[c].pc = "done"
             /\ req'[c].result.status = 400
             /\ req'[c].log = <<>>
             /\ UNCHANGED <<deals, matches, notifications, audit_events, outbox>>]_vars

\* An ingest call ended with 400 while the tables hold rows.
C5_Witness ==
    \E c \in Calls :
        /\ req[c].op = "ingest"
        /\ req[c].result.status = 400
        /\ deals /= <<>>
        /\ notifications /= <<>>
        /\ audit_events /= <<>>

\* C6: a notification's status only moves from queued to sent, and no
\* Notification, Deal or Match row is ever deleted.
C6_StatusMonotonic ==
    [][/\ \A i \in DOMAIN notifications :
             /\ i \in DOMAIN notifications'
             /\ notifications'[i].notification_id = notifications[i].notification_id
             /\ notifications'[i].status \in {"queued", "sent"}
             /\ notifications[i].status = "sent" => notifications'[i].status = "sent"
       /\ \A i \in DOMAIN deals :
             /\ i \in DOMAIN deals'
             /\ deals'[i].deal_id = deals[i].deal_id
             /\ deals'[i].source = deals[i].source
             /\ deals'[i].source_uid = deals[i].source_uid
       /\ \A k \in DOMAIN matches : k \in DOMAIN matches']_vars

\* Rows were enqueued after a row was marked sent, for the same deal.
C6_Witness ==
    \E i, j \in DOMAIN notifications :
        /\ i < j
        /\ notifications[i].status = "sent"
        /\ notifications[j].status = "queued"
        /\ notifications[i].kind = notifications[j].kind
        /\ notifications[i].related_deal_id = notifications[j].related_deal_id

QueuedIds == {i \in DOMAIN notifications : notifications[i].status = "queued"}
Range(q) == {q[i] : i \in DOMAIN q}

\* C7: a dispatch call with limit N selects the N oldest queued rows (all of them
\* when fewer are queued), each queued at selection time, in non-decreasing
\* creation order, and hands the transport rows of that batch only, in that order.
C7_DispatchOldestFirst ==
    [][/\ \A c \in Calls :
             req[c].pc = "dispatch" /\ req'[c].pc /= "dispatch" =>
                 LET rows == req'[c].rows
                     at(i) == notifications[i].created_at
                 IN  /\ Len(rows) <= req[c].limit
                     /\ smtp = SmtpSettings =>
                            Len(rows) = Min(req[c].limit, Cardinality(QueuedIds))
                     /\ Range(rows) \subseteq QueuedIds
                     /\ \A i, j \in DOMAIN rows :
                            i < j => rows[i] /= rows[j] /\ at(rows[i]) <= at(rows[j])
                     /\ \A q \in QueuedIds \ Range(rows) :
                            \A i \in DOMAIN rows : ~(at(q) < at(rows[i]))
       /\ outbox' /= outbox =>
             \E c \in Calls :
                 /\ req[c].pc = "send"
                 /\ req[c].k <= req[c].limit
                 /\ req[c].sent = req[c].k - 1
                 /\ outbox' = Append(outbox, req[c].rows[req[c].k])]_vars

\* A call with limit 1 took one row and left a newer queued row out.
C7_Witness ==
    \E c \in Calls :
        /\ req[c].limit = 1
        /\ req[c].pc = "mark"
        /\ Len(req[c].rows) = 1
        /\ \E q \in QueuedIds :
              /\ q \notin Range(req[c].rows)
              /\ notifications[q].created_at > notifications[req[c].rows[1]].created_at

\* C8: while the transport is not fully configured, every dispatch call returns
\* 0 and opens no session, and every row stays as it was enqueued.
C8_NoTransportNoDispatch ==
    smtp /= SmtpSettings =>
        /\ outbox = <<>>
        /\ \A i \in DOMAIN notifications :
              /\ notifications[i].status = "queued"
              /\ notifications[i].sent_at = None
              /\ notifications[i].provider = None
        /\ \A c \in Calls :
              LET r == req[c] IN
              /\ r.pc \notin {"smtp", "send", "mark"}
              /\ ~Has(r, "session", 0)
              /\ ~Has(r, "select", 0)
              /\ r.rows = <<>>
              /\ r.pc = "done" /\ Has(r, "dispatch", 0) =>
                    /\ r.result.status = 200
                    /\ IF r.op = "admin" THEN r.result.sent = 0
                       ELSE r.result.emails_sent_now = 0

\* Without a full configuration, the dispatch at the end of an ingest and an
\* operator's dispatch have both returned, with rows in the queue.
C8_Witness ==
    /\ smtp /= SmtpSettings
    /\ Cardinality(QueuedIds) >= 2
    /\ \E c \in Calls :
          /\ req[c].pc = "done"
          /\ req[c].op = "admin"
          /\ req[c].limit > 0

\* C9 as stated: after a failed send the rows of the batch sent before it are
\* marked sent, the failed row is as it was enqueued, and the next dispatch call
\* selects it.
C9_NextDispatchSelectsFailedRow ==
    /\ \A c \in Calls :
          "send" \in req[c].faults =>
              \A i \in 1..(req[c].k - 1) : notifications[req[c].rows[i]].status = "sent"
    /\ retry /= 0 => /\ notifications[retry].status = "queued"
                     /\ notifications[retry].sent_at = None
                     /\ notifications[retry].provider = None
    /\ \A c \in Calls : req[c].retrying /= 0 => req[c].retrying \in Range(req[c].rows)

\* C9 as amended: the next dispatch call selects the failed row when its limit
\* is at least 1.
C9_FailedRowStaysQueued ==
    /\ \A c \in Calls :
          "send" \in req[c].faults =>
              \A i \in 1..(req[c].k - 1) : notifications[req[c].rows[i]].status = "sent"
    /\ retry /= 0 => /\ notifications[retry].status = "queued"
                     /\ notifications[retry].sent_at = None
                     /\ notifications[retry].provider = None
    /\ \A c \in Calls :
          req[c].retrying /= 0 /\ req[c].limit >= 1 =>
              req[c].retrying \in Range(req[c].rows)

\* The second message of a batch failed after the first was sent, and the next
\* dispatch call has selected it.
C9_Witness ==
    \E c \in Calls :
        /\ req[c].retrying > 1
        /\ req[c].limit >= 1
        /\ req[c].retrying \in Range(req[c].rows)
        /\ \E i \in DOMAIN notifications :
              /\ i < req[c].retrying
              /\ notifications[i].status = "sent"

\* C10: an ingest call in which the upsert of a Match row failed, and nothing
\* else did, still scores every active buyer, persists the Match row of each
\* buyer whose upsert did not fail, writes its one audit record and returns 200.
C10_MatchFailureIsolated ==
    \A c \in Calls :
        LET r == req[c] IN
        r.op = "ingest" /\ r.pc = "done" /\ r.faults = {"match"} =>
            /\ r.result.status = 200
            /\ Cardinality({i \in DOMAIN r.log : r.log[i] = Ev("audit", 0)}) = 1
            /\ \E a \in DOMAIN audit_events :
                  audit_events[a].entity_id = r.deal_row.deal_id
            /\ \A i \in DOMAIN ActiveBuyers :
                  LET bu == ActiveBuyers[i]
                      k == <<r.deal_row.deal_id, bu.buyer_id>>
                  IN  /\ Has(r, "match", bu.buyer_id)
                      /\ Has(r, "persist", bu.buyer_id) \/ Has(r, "persist_failed", bu.buyer_id)
                      /\ Has(r, "persist", bu.buyer_id) =>
                            /\ k \in DOMAIN matches
                            /\ matches[k].match_score = compute_match(r.deal_row, bu).score

\* The Match row of the first buyer failed, the second buyer's was persisted,
\* and the call returned 200.
C10_Witness ==
    \E c \in Calls :
        /\ req[c].op = "ingest"
        /\ req[c].pc = "done"
        /\ req[c].result.status = 200
        /\ Has(req[c], "persist_failed", ActiveBuyers[1].buyer_id)
        /\ Has(req[c], "persist", ActiveBuyers[2].buyer_id)
        /\ <<req[c].deal_row.deal_id, ActiveBuyers[2].buyer_id>> \in DOMAIN matches
        /\ <<req[c].deal_row.deal_id, ActiveBuyers[1].buyer_id>> \notin DOMAIN matches

\* C11: whatever the interleaving of ingest calls in flight together that carry
\* the same (source, source_uid), the store holds one Deal row for that key and
\* every such call that returns success returns that row's deal_id.
C11_SameKeyOneRow ==
    /\ \A i, j \in DOMAIN deals :
          (deals[i].source = deals[j].source
              /\ deals[i].source_uid = deals[j].source_uid) => i = j
    /\ \A c \in Calls :
          LET r == req[c] IN
          r.op = "ingest" /\ r.pc = "done" /\ r.result.status = 200 =>
              /\ DealIndex(deals, SourceOf(r.payload), r.payload.source_uid)
                     = {r.result.deal_id}
              /\ \A d \in Calls :
                    (/\ req[d].op = "ingest" /\ req[d].pc = "done"
                     /\ req[d].result.status = 200
                     /\ SourceOf(req[d].payload) = SourceOf(r.payload)
                     /\ req[d].payload.source_uid = r.payload.source_uid)
                    => req[d].result.deal_id = r.result.deal_id

\* Two ingest calls in flight together carried the same key with different
\* categories, and both have returned success.
C11_Witness ==
    /\ overlap
    /\ \A c \in Calls :
          /\ req[c].op = "ingest"
          /\ req[c].pc = "done"
          /\ req[c].result.status = 200
    /\ req[1].payload.source_uid = req[2].payload.source_uid
    /\ SourceOf(req[1].payload) = SourceOf(req[2].payload)
    /\ req[1].payload.category /= req[2].payload.category
    /\ Len(deals) = 1

\* C12: a uid derived from source_url depends on the URL alone: the Deal rows of
\* ingest calls with the same source and source_url and no explicit uid, whichever
\* server process served them, are one and the same row.
C12_DerivedUidStable ==
    \A i, j \in DOMAIN deals :
        (/\ deals[i].source = deals[j].source
         /\ deals[i].source_url = deals[j].source_url
         /\ \A k \in {i, j} :
               \E seed \in HashSeeds :
                   deals[k].source_uid = DerivedUid(seed, deals[k].source_url))
        => i = j

AdminRows == {i \in DOMAIN notifications : notifications[i].kind = "admin"}

\* C13: an ingest call that returns success has enqueued one admin notification,
\* no more and no fewer, and the row is linked to its deal; the admin rows of the
\* table are those of the calls that wrote an audit record or are about to.
C13_OneAdminNotification ==
    /\ \A c \in Calls :
          LET r == req[c] IN
          r.op = "ingest" /\ r.pc = "done" /\ r.result.status = 200 =>
              /\ Cardinality({i \in DOMAIN r.log : r.log[i] = Ev("admin", 0)}) = 1
              /\ \E i \in AdminRows :
                    notifications[i].related_deal_id = r.result.deal_id
    /\ Cardinality(AdminRows)
          = Len(audit_events)
            + Cardinality({c \in Calls : Has(req[c], "admin", 0) /\ ~Has(req[c], "audit", 0)})

\* Two ingest calls of the same deal have returned success, one that notified a
\* buyer and one whose ai_score is below the threshold: the deal has two admin
\* rows.
C13_Witness ==
    /\ Len(audit_events) = 2
    /\ audit_events[1].entity_id = audit_events[2].entity_id
    /\ Len(audit_events[1].matched) /= Len(audit_events[2].matched)
    /\ \E c \in Calls :
          /\ req[c].op = "ingest" /\ req[c].pc = "done" /\ req[c].result.status = 200
          /\ req[c].score < NotifyThreshold
          /\ Cardinality({i \in AdminRows :
                 notifications[i].related_deal_id = req[c].result.deal_id}) = 2

\* C14: an ingest call with a valid category, under which the store answered
\* every call, returns success even when the dispatch at its end could not open
\* its session or failed to send a message.
C14_DispatchFailureAbsorbed ==
    \A c \in Calls :
        LET r == req[c] IN
        (/\ r.op = "ingest"
         /\ r.pc = "done"
         /\ r.payload.category \in CategoryEnum
         /\ r.faults \subseteq {"smtp", "send"})
        => r.result.status = 200

\* C15: an ingest call whose deal upsert failed ends with a server error, and
\* neither the scoring engine nor the matching engine was invoked under it.
C15_UpsertFailureBeforeScoring ==
    \A c \in Calls :
        LET r == req[c] IN
        r.op = "ingest" /\ "upsert" \in r.faults =>
            /\ r.pc = "done"
            /\ r.result.status = 500
            /\ ~Has(r, "score", 0)
            /\ \A i \in DOMAIN r.log : r.log[i].ev /= "match"

\* C16: the score the scoring engine returns lies in [0,1], from the heuristic
\* (any number of keyword hits, with or without the price and recency bonuses)
\* and from the external strategy (any number the service returns, below 0 and
\* above 1 included).
C16_ScoreInUnitInterval ==
    probe.fn = "score" /\ probe.applied =>
        /\ probe.out.score >= 0
        /\ probe.out.score <= 1000

\* The heuristic was applied to a listing with all seven keywords, a price and
\* a fresh posting date, whose bonuses add up to more than 1.
C16_Witness ==
    /\ probe.fn = "score"
    /\ probe.applied
    /\ ~probe.has_client
    /\ Keywords \subseteq probe.deal.title
    /\ probe.deal.price = Some(150)
    /\ probe.deal.posted_at = Some(10)
    /\ probe.out.score = 1000

\* The deal and the buyer of the worked example.
ExampleDeal(d) ==
    /\ d.price = Some(150) /\ d.country = "US" /\ d.region = "CA"
    /\ d.category = "wholesale" /\ d.posted_at = Some(10)
ExampleBuyer(b) ==
    /\ b.budget_min = Some(100) /\ b.budget_max = Some(200)
    /\ b.countries = {"US"} /\ b.regions = {"NY"} /\ b.categories = {"wholesale"}

\* C17: match() returns 0.40*budget + 0.30*location + 0.20*category +
\* 0.10*recency of the four factors of its breakdown, with category in {0, 1},
\* location in {0, 0.4, 0.6, 1.0} and recorded weights 0.40, 0.30, 0.20, 0.10,
\* which sum to 1; the worked example gives factors 1.0, 0.6, 1.0, 1.0 and 0.88.
C17_WeightedSum ==
    probe.fn = "match" /\ probe.applied =>
        LET bd == probe.out.breakdown IN
        /\ probe.out.score = 40 * bd.budget + 30 * bd.location
                             + 20 * bd.category + 10 * bd.recency
        /\ bd.category \in {0, 10}
        /\ bd.location \in {0, 4, 6, 10}
        /\ bd.weights = [budget |-> 40, location |-> 30, category |-> 20, recency |-> 10]
        /\ bd.weights.budget + bd.weights.location
               + bd.weights.category + bd.weights.recency = 100
        /\ ExampleDeal(probe.deal) /\ ExampleBuyer(probe.buyer) =>
               /\ bd.budget = 10 /\ bd.location = 6
               /\ bd.category = 10 /\ bd.recency = 10
               /\ probe.out.score = 880

\* match() was applied to the deal and the buyer of the worked example.
C17_Witness ==
    /\ probe.fn = "match"
    /\ probe.applied
    /\ ExampleDeal(probe.deal)
    /\ ExampleBuyer(probe.buyer)
    /\ probe.out.score = 880

\* C18: the budget factor is 1.0 when the price is known and budget_min <= price
\* <= budget_max, else 0.6 when the price and budget_max are known and price <=
\* budget_max, else 0.3, for every price, zero included, and every combination
\* of present and absent bounds.
C18_BudgetFactor ==
    probe.fn = "match" /\ probe.applied =>
        LET price == probe.deal.price
            bmin  == probe.buyer.budget_min
            bmax  == probe.buyer.budget_max
        IN  probe.out.breakdown.budget =
                IF price /= Nil /\ bmin /= Nil /\ bmax /= Nil
                     /\ Val(bmin) <= Val(price) /\ Val(price) <= Val(bmax) THEN 10
                ELSE IF price /= Nil /\ bmax /= Nil /\ Val(price) <= Val(bmax) THEN 6
                ELSE 3

\* C19: an ingest call that wrote its audit record wrote one, and the matched
\* list of that record has an entry (recipient and match score) for every buyer
\* the call notified, however many they are.
C19_AuditListsEveryNotified ==
    \A c \in Calls :
        LET r == req[c] IN
        r.op = "ingest" /\ Has(r, "audit", 0) =>
            /\ Cardinality({i \in DOMAIN r.log : r.log[i] = Ev("audit", 0)}) = 1
            /\ audit_events /= <<>>
            /\ LET a == audit_events[Len(audit_events)] IN
               /\ a.event_type = "deal_ingest"
               /\ a.entity_id = r.deal_row.deal_id
               /\ a.ai_score = r.score
               /\ \A i \in DOMAIN r.matched :
                     \E j \in DOMAIN a.matched :
                         /\ a.matched[j].email = r.matched[i].email
                         /\ a.matched[j].match_score = r.matched[i].match_score

Places(r, names) == {i \in DOMAIN r.log : r.log[i].ev \in names}
Before(r, earlier, later) ==
    \A i \in Places(r, earlier) : \A j \in Places(r, later) : i < j

\* C20: a successful ingest call goes Validate, Upsert, Score, Sweep, Notify,
\* Audit, dispatch: the deal is upserted before the scoring engine is invoked,
\* every Match row of the sweep is persisted before any notification (admin or
\* buyer) is enqueued, and the audit record is written after the last enqueue
\* and before the dispatch.
C20_PhaseOrder ==
    \A c \in Calls :
        LET r == req[c] IN
        r.op = "ingest" /\ r.pc = "done" /\ r.result.status = 200 =>
            /\ Before(r, {"upsert"}, {"score"})
            /\ Before(r, {"score"}, {"match"})
            /\ Before(r, {"match", "persist", "persist_failed"}, {"admin", "buyer"})
            /\ Before(r, {"admin", "buyer"}, {"audit"})
            /\ Before(r, {"audit"}, {"dispatch"})

\* The most rows the notifications table can hold.
MaxRows == MaxCalls * (1 + Len(Buyers))

\* Row i is queued for a recipient the server accepts; row i is marked sent.
Deliverable(i) ==
    IF i \in DOMAIN notifications
    THEN notifications[i].status = "queued" /\ notifications[i].to_email \notin rejected
    ELSE FALSE
MarkedSent(i) ==
    IF i \in DOMAIN notifications THEN notifications[i].status = "sent" ELSE FALSE

\* C21: with the transport configured and dispatch called again and again, every
\* queued notification whose recipient the server accepts is eventually marked
\* sent, whatever happens to the sends of older rows.
C21_EventuallySent ==
    \A i \in 1..MaxRows : [](Deliverable(i) => <>MarkedSent(i))

\* C22: whatever the interleaving of two dispatch calls that overlap, no
\* notification is handed to the transport twice, and the sent counts the calls
\* return add up to the rows that went from queued to sent.
C22_HandedOverAtMostOnce ==
    /\ \A i, j \in DOMAIN outbox : i /= j => outbox[i] /= outbox[j]
    /\ (\A c \in Calls : req[c].pc = "done" /\ req[c].result.status = 200
                         /\ req[c].seen = {}) =>
           (req[1].sent + req[2].sent = Cardinality(SentIds(notifications)))

\* C23: every buyer notification linked to (deal_id, buyer_id) has a persisted
\* Match row for that pair: a buyer whose Match row could not be persisted is not
\* notified for that deal.
C23_NotifiedBuyerHasMatchRow ==
    \A i \in DOMAIN notifications :
        notifications[i].kind = "buyer" =>
            <<notifications[i].related_deal_id, notifications[i].related_buyer_id>>
                \in DOMAIN matches

\* C24: once ingest calls for the same (source, source_uid) that were in flight
\* together have all completed, every Match row of the deal holds the score the
\* matching engine gives for the stored Deal row and that buyer.
C24_MatchRowsFromStoredDeal ==
    (\A c \in Calls : ~InFlight(c)) =>
        \A k \in DOMAIN matches :
            \A i \in DOMAIN buyers :
                buyers[i].buyer_id = k[2] =>
                    matches[k].match_score = compute_match(deals[k[1]], buyers[i]).score

====
